---- MODULE Spec2Model ----
(***************************************************************************)
(* useStateWithSearchParam (src/hooks/useStateWithSearchParam.tsx): a      *)
(* React hook that keeps a state value and mirrors it into one URL search  *)
(* parameter.                                                              *)
(*                                                                         *)
(* The hook is modelled together with the two collaborators it calls:      *)
(*  - React's state hook: _setState(x) appends x to the hook's update      *)
(*    queue; the queue is drained, in order, by the next render pass.  An  *)
(*    updater function dispatched while the queue is empty may instead be  *)
(*    evaluated at once (React's eager state), its result being stored in  *)
(*    the queue.  Effects run after the render pass has committed.         *)
(*  - react-router's useSearchParams: `searchParams` is one                *)
(*    URLSearchParams object per hook instance, memoised on                *)
(*    location.search; it is replaced by a fresh object only in a render   *)
(*    pass that sees another location.search.  setSearchParams(p)          *)
(*    navigates to "?" + p: the URL changes at once, the rendered location *)
(*    at the next render pass.                                             *)
(* JavaScript runs every handler to completion: a render pass (phase       *)
(* "render") is not interleaved with calls of setState or with navigation. *)
(***************************************************************************)
EXTENDS Integers, Sequences, FiniteSets, TLC

\* ------------------------------------------------------------------ bounds

\* The state type T is 0..MaxVal.
MaxVal == 2
\* At most MaxCalls calls of setState are made between two settling points.
MaxCalls == 2

\* ------------------------------------------------------- values and strings

T == 0..MaxVal

\* JavaScript's null (URLSearchParams.get of a missing name) and undefined.
Null == "<null>"
Undefined == "<undefined>"

Digits == <<"0", "1", "2", "3", "4", "5", "6", "7", "8", "9">>

\* String(v) for a small non-negative integer.
String(v) == Digits[v + 1]

\* Number(s) for a string of one decimal digit.
Number(s) == (CHOOSE i \in DOMAIN Digits : Digits[i] = s) - 1

\* JavaScript truthiness of a string | null | undefined.
Truthy(x) == x # Null /\ x # Undefined /\ x # ""

\* The parameter values that occur: the empty string and the digits of T.
ParamValues == {""} \cup {String(v) : v \in T}

\* ------------------------------------------------------------ configuration

\* The hook instances (cells) and the parameter name each is bound to
\* (args.searchParamName).
Cells == {1, 2}
searchParamName(c) == IF c = 1 THEN "q" ELSE "k"
Names == {searchParamName(c) : c \in Cells}

\* Two caller configurations (args.fromParam, args.toParam):
\*   "num"   fromParam = s => s ? Number(s) : 0
\*           toParam   = v => v === 0 ? undefined : String(v)
\*   "blank" fromParam = s => s ? Number(s) : 0
\*           toParam   = v => v === 0 ? "" : String(v)
\* Both satisfy fromParam(toParam(v)) = v wherever toParam(v) is a string.
Configs == {"num", "blank"}

\* Two more, which satisfy it too:
\*   "empty" fromParam = s => s === null ? 0 : s === "" ? 1 : Number(s)
\*           toParam   = v => v === 0 ? undefined : v === 1 ? "" : String(v)
\*           (the empty string stands for a value of its own, as the empty
\*           text of a search box does next to no search at all)
\*   "skip"  fromParam = s => s ? Number(s) : 0
\*           toParam   = v => v === 2 ? undefined : String(v)
\*           (one value that is not the default is kept out of the URL)
\* And one whose T is an object, made anew by every call of fromParam:
\*   "fresh" fromParam = s => ({n: s ? Number(s) : 0})
\*           toParam   = o => o.n === 0 ? undefined : String(o.n)
\* (an object is modelled by its content n; see NotSame for its identity).
\* And one whose toParam throws for the values above 1:
\*   "throws" fromParam = s => s ? Number(s) : 0
\*            toParam   = v => { if (v > 1) throw new RangeError();
\*                               return v === 0 ? undefined : String(v) }
MoreConfigs == {"empty", "skip", "fresh", "throws"}

\* toParam(v) did not return: it threw.
Thrown == "<throws>"

fromParam(cf, s) ==
  IF cf = "empty"
    THEN (IF s = Null THEN 0 ELSE IF s = "" THEN 1 ELSE Number(s))
    ELSE (IF Truthy(s) THEN Number(s) ELSE 0)

toParam(cf, v) ==
  CASE cf \in {"num", "fresh"} -> (IF v = 0 THEN Undefined ELSE String(v))
    [] cf = "blank" -> (IF v = 0 THEN "" ELSE String(v))
    [] cf = "empty" ->
         (IF v = 0 THEN Undefined ELSE IF v = 1 THEN "" ELSE String(v))
    [] cf = "skip" -> (IF v = 2 THEN Undefined ELSE String(v))
    [] cf = "throws" ->
         (IF v > 1 THEN Thrown ELSE IF v = 0 THEN Undefined ELSE String(v))

\* The caller's updater functions: "inc" is prev => Math.min(prev + 1, MaxVal).
Inc(v) == IF v < MaxVal THEN v + 1 ELSE v

\* The argument of setState: a literal value or an updater function.  The
\* callers pass the literals 0 and 1 and the updater "inc".
Lit(v) == [form |-> "lit", val |-> v]
IncFn == [form |-> "inc", val |-> 0]
Args == {Lit(0), Lit(1), IncFn}

\* ------------------------------------------------- URLSearchParams (ordered)

\* A URLSearchParams / query string: a sequence of (name, value) entries with
\* distinct names.
Entry(n, v) == [name |-> n, value |-> v]

Has(p, n) == \E i \in DOMAIN p : p[i].name = n

\* searchParams.get(name): the value of the entry, or null.
Get(p, n) ==
  IF Has(p, n) THEN p[CHOOSE i \in DOMAIN p : p[i].name = n].value ELSE Null

\* searchParams.set(name, value): replaces the entry in place, or appends one.
Set(p, n, v) ==
  IF Has(p, n)
    THEN [i \in DOMAIN p |-> IF p[i].name = n THEN Entry(n, v) ELSE p[i]]
    ELSE Append(p, Entry(n, v))

RECURSIVE Delete(_, _)
\* searchParams.delete(name): removes the entry.
Delete(p, n) ==
  IF p = <<>> THEN <<>>
  ELSE IF Head(p).name = n THEN Delete(Tail(p), n)
  ELSE <<Head(p)>> \o Delete(Tail(p), n)

\* The number of entries of p named n.
Count(p, n) == Cardinality({i \in DOMAIN p : p[i].name = n})

\* The query strings the URL starts from when "q" is its only parameter.
InitStores == {<<>>} \cup {<<Entry("q", v)>> : v \in ParamValues}

\* The query strings the URL starts from when another parameter, "k", may be
\* there too.
OtherStores ==
  {<<>>, <<Entry("q", "1")>>, <<Entry("k", "1")>>,
   <<Entry("q", "1"), Entry("k", "1")>>, <<Entry("k", "1"), Entry("q", "1")>>}

\* ------------------------------------------------------------------- state

VARIABLES
  args,           \* the configuration the hooks were called with (immutable)
  url,            \* the URL's query string (the browser history's location)
  location,       \* the location.search the last render pass rendered
  phase,          \* "idle", or "render" while a render pass processes queues
  mounted,        \* mounted[c]: cell c is mounted
  state,          \* state[c]: _state of the hook's useState
  queue,          \* queue[c]: the pending updates of _setState, oldest first
  searchParams,   \* searchParams[c]: the content of the hook's memoised
                  \* URLSearchParams object (mutated in place by the updater)
  memoKey,        \* memoKey[c]: the location.search searchParams[c] was made for
  effectPending,  \* effectPending[c]: the render's effect has not run yet
  last,           \* the step taken last (what it was, and what it computed)
  since,          \* since[c]: the state at the last settling point of c and
                  \* the calls and external changes made after it
  events,         \* parity of the number of calls and external changes so far
                  \* (counted by FairSpec only)
  writes          \* the replacements of the URL by updaters since the last
                  \* quiet point, oldest first, and the commits between them
                  \* (kept by SpecTwo only)

vars ==
  <<args, url, location, phase, mounted, state, queue, searchParams, memoKey,
    effectPending, last, since, events, writes>>

NoArg == [form |-> "none", val |-> 0]

Step(op, c, arg, v, wrote) ==
  [op |-> op, cell |-> c, arg |-> arg, val |-> v, wrote |-> wrote]

\* since[c]: `plain` is the state a plain useState cell would hold, had it
\* held the state of the last settling point and received the `calls` calls of
\* setState made after it; `external` tells that the URL was changed from
\* outside after that point (plain is then of no use and is reset).
Fresh(s) == [plain |-> s, calls |-> 0, external |-> FALSE]

\* A settling point of cell c: no queued update, no effect still to run, and
\* the rendered location is the URL (no navigation waits for a render pass).
Settled(c) ==
  /\ phase = "idle"
  /\ mounted[c]
  /\ queue[c] = <<>>
  /\ ~effectPending[c]
  /\ location = url

\* since[c] after one more call (a = the argument) or external change.
Noted(c, a, ext) ==
  LET b == IF Settled(c) THEN Fresh(state[c]) ELSE since[c]
      e == b.external \/ ext
  IN [plain |-> IF e THEN 0 ELSE IF a = NoArg THEN b.plain
                ELSE IF a.form = "inc" THEN Inc(b.plain) ELSE a.val,
      calls |-> IF a = NoArg THEN b.calls ELSE b.calls + 1,
      external |-> e]

\* Before the hook is first called: a configuration, a URL, nothing mounted.
Start(configs, stores) ==
  /\ args \in configs
  /\ url \in stores
  /\ location = url
  /\ phase = "idle"
  /\ mounted = [c \in Cells |-> FALSE]
  /\ state = [c \in Cells |-> 0]
  /\ queue = [c \in Cells |-> <<>>]
  /\ searchParams = [c \in Cells |-> <<>>]
  /\ memoKey = [c \in Cells |-> <<>>]
  /\ effectPending = [c \in Cells |-> FALSE]
  /\ last = Step("init", 0, NoArg, 0, FALSE)
  /\ since = [c \in Cells |-> Fresh(0)]
  /\ events = 0
  /\ writes = <<>>

Init == Start(Configs, InitStores)

\* ------------------------------------------------------------ the hook body

\* Mutant of initialState: the state starts from the default, whatever the
\* URL holds.
initialStateDefault(cf, p, n) == fromParam(cf, Null)

\* Line 25: the initializer of useState, run once, by the mounting render.
initialState(cf, p, n) == fromParam(cf, Get(p, n))

\* Line 31: the next value, from the literal or from the updater function
\* applied to the state the queue has reached (prevState).
newValue(arg, prevState) ==
  IF arg.form = "inc" THEN Inc(prevState) ELSE arg.val

\* Mutant of newParams: the parameter is always set, to "" when there is no
\* value (searchParams.set(name, newParamValue ?? "")).
newParamsAlwaysSet(cf, n, p, v) ==
  LET newParamValue == toParam(cf, v)
  IN Set(p, n, IF Truthy(newParamValue) THEN newParamValue ELSE "")

\* Mutant of newParams: the else branch is missing, nothing is deleted.
newParamsNoDelete(cf, n, p, v) ==
  LET newParamValue == toParam(cf, v)
  IN IF Truthy(newParamValue) THEN Set(p, n, newParamValue) ELSE p

\* Mutant of newParams: the store is replaced with this parameter alone
\* (setSearchParams({[name]: value})).
newParamsOnlyOwn(cf, n, p, v) ==
  LET newParamValue == toParam(cf, v)
  IN IF Truthy(newParamValue) THEN <<Entry(n, newParamValue)>> ELSE <<>>

\* Lines 32-38: the captured searchParams object after the updater's set or
\* delete.
newParams(cf, n, p, v) ==
  LET newParamValue == toParam(cf, v)
  IN IF Truthy(newParamValue) THEN Set(p, n, newParamValue) ELSE Delete(p, n)

\* Mutant of Enqueue: the newest update is applied first.
EnqueueFirst(q, e) == <<e>> \o q

\* Line 30: _setState(x) puts x at the end of the hook's update queue.
Enqueue(q, e) == Append(q, e)

Updater(arg) == [kind |-> "updater", arg |-> arg]
Value(v) == [kind |-> "value", arg |-> Lit(v)]

\* Mounting render of cell c (lines 22-25): searchParams is made from the
\* location, the state is seeded from it, the effect is scheduled.  Mounting
\* is a render pass of its own: nothing else waits for one.
Mount(c) ==
  /\ phase = "idle"
  /\ ~mounted[c]
  /\ location = url
  /\ \A d \in Cells : queue[d] = <<>> /\ ~effectPending[d]
  /\ mounted' = [mounted EXCEPT ![c] = TRUE]
  /\ searchParams' = [searchParams EXCEPT ![c] = url]
  /\ memoKey' = [memoKey EXCEPT ![c] = url]
  /\ state' = [state EXCEPT ![c] = initialState(args, url, searchParamName(c))]
  /\ effectPending' = [effectPending EXCEPT ![c] = TRUE]
  /\ since' = [since EXCEPT ![c] = Fresh(state'[c])]
  /\ last' = Step("mount", c, NoArg, state'[c], FALSE)
  /\ UNCHANGED <<args, url, location, phase, queue>>

\* The component unmounts: the hook's state, queue and effect are discarded.
Unmount(c) ==
  /\ phase = "idle"
  /\ mounted[c]
  /\ mounted' = [mounted EXCEPT ![c] = FALSE]
  /\ state' = [state EXCEPT ![c] = 0]
  /\ queue' = [queue EXCEPT ![c] = <<>>]
  /\ searchParams' = [searchParams EXCEPT ![c] = <<>>]
  /\ memoKey' = [memoKey EXCEPT ![c] = <<>>]
  /\ effectPending' = [effectPending EXCEPT ![c] = FALSE]
  /\ since' = [since EXCEPT ![c] = Fresh(0)]
  /\ last' = Step("unmount", c, NoArg, 0, FALSE)
  /\ UNCHANGED <<args, url, location, phase>>

\* The page is reloaded (or its link opened elsewhere): the component is
\* unmounted, all its state discarded, and a fresh one mounted on the URL as
\* it is (lines 22-25).
Reload(c) ==
  /\ phase = "idle"
  /\ mounted[c]
  /\ location' = url
  /\ searchParams' = [searchParams EXCEPT ![c] = url]
  /\ memoKey' = [memoKey EXCEPT ![c] = url]
  /\ state' = [state EXCEPT ![c] = initialState(args, url, searchParamName(c))]
  /\ queue' = [queue EXCEPT ![c] = <<>>]
  /\ effectPending' = [effectPending EXCEPT ![c] = TRUE]
  /\ since' = [since EXCEPT ![c] = Fresh(state'[c])]
  /\ last' = Step("reload", c, NoArg, state'[c], FALSE)
  /\ UNCHANGED <<args, url, phase, mounted>>

\* Mutant of SetStateQueued: the URL is written in setState itself, outside
\* the updater given to _setState.
SetStateQueuedWriting(c, arg) ==
  /\ phase = "idle"
  /\ mounted[c]
  /\ Settled(c) \/ since[c].calls < MaxCalls
  /\ LET p == newParams(args, searchParamName(c), searchParams[c],
                        newValue(arg, state[c]))
     IN /\ searchParams' = [searchParams EXCEPT ![c] = p]
        /\ url' = p
  /\ queue' = [queue EXCEPT ![c] = Enqueue(queue[c], Value(newValue(arg, state[c])))]
  /\ since' = [since EXCEPT ![c] = Noted(c, arg, FALSE)]
  /\ last' = Step("call", c, arg, 0, TRUE)
  /\ UNCHANGED <<args, location, phase, mounted, state, memoKey, effectPending>>

\* setState(value), lines 29-43, when React queues the updater: nothing but
\* the queue changes until the next render pass.
SetStateQueued(c, arg) ==
  /\ phase = "idle"
  /\ mounted[c]
  /\ Settled(c) \/ since[c].calls < MaxCalls
  /\ queue' = [queue EXCEPT ![c] = Enqueue(queue[c], Updater(arg))]
  /\ since' = [since EXCEPT ![c] = Noted(c, arg, FALSE)]
  /\ last' = Step("call", c, arg, 0, FALSE)
  /\ UNCHANGED <<args, url, location, phase, mounted, state, searchParams,
                 memoKey, effectPending>>

\* setState(value), lines 29-43, when the queue is empty and React evaluates
\* the updater at once on the rendered state: the updater's side effects
\* (lines 34-39) happen inside the call; its result waits in the queue.  (An
\* updater that throws here is queued instead: React drops the error of an
\* eager evaluation and runs the updater again in the render pass.)
SetStateEager(c, arg) ==
  /\ phase = "idle"
  /\ mounted[c]
  /\ queue[c] = <<>>
  /\ Settled(c) \/ since[c].calls < MaxCalls
  /\ toParam(args, newValue(arg, state[c])) # Thrown
  /\ LET v == newValue(arg, state[c])
         p == newParams(args, searchParamName(c), searchParams[c], v)
     IN /\ searchParams' = [searchParams EXCEPT ![c] = p]
        /\ url' = p
        /\ queue' = [queue EXCEPT ![c] = Enqueue(queue[c], Value(v))]
        /\ last' = Step("callEager", c, arg, v, TRUE)
  /\ since' = [since EXCEPT ![c] = Noted(c, arg, FALSE)]
  /\ UNCHANGED <<args, location, phase, mounted, state, memoKey, effectPending>>

\* Something other than the hooks navigates: one parameter of the URL is set
\* or removed (a link, the back button, another component).
External(n, v) ==
  /\ phase = "idle"
  /\ url' = IF v = Null THEN Delete(url, n) ELSE Set(url, n, v)
  /\ url' # url
  /\ since' = [c \in Cells |-> IF mounted[c] THEN Noted(c, NoArg, TRUE) ELSE since[c]]
  /\ last' = Step("external", 0, NoArg, 0, FALSE)
  /\ UNCHANGED <<args, location, phase, mounted, state, queue, searchParams,
                 memoKey, effectPending>>

\* A render pass starts: React has flushed the effects of the previous pass,
\* and a queued update or a navigation asks for a render.  The pass renders
\* the location the URL has now.
BeginRender ==
  /\ phase = "idle"
  /\ \E c \in Cells : mounted[c]
  /\ \A c \in Cells : ~effectPending[c]
  /\ location # url \/ \E c \in Cells : queue[c] # <<>>
  /\ phase' = "render"
  /\ location' = url
  /\ last' = Step("begin", 0, NoArg, 0, FALSE)
  /\ UNCHANGED <<args, url, mounted, state, queue, searchParams, memoKey,
                 effectPending, since>>

\* The cell whose queue the render pass processes next (cells render in order).
NextCell == CHOOSE c \in Cells : queue[c] # <<>> /\ \A d \in Cells : queue[d] # <<>> => c <= d

\* The oldest queued update of cell c is an updater whose toParam (line 32)
\* throws.
Throws(c) ==
  /\ queue[c] # <<>>
  /\ Head(queue[c]).kind = "updater"
  /\ toParam(args, newValue(Head(queue[c]).arg, state[c])) = Thrown

\* Mutant of UpdaterThrows: the updater deletes the parameter and navigates
\* before it encodes the next value (searchParams.delete(name);
\* setSearchParams(searchParams); then toParam and set).
UpdaterThrowsAfterDelete ==
  /\ phase = "render"
  /\ \E c \in Cells : queue[c] # <<>>
  /\ Throws(NextCell)
  /\ LET c == NextCell
         u == Head(queue[c])
         p == Delete(searchParams[c], searchParamName(c))
     IN /\ searchParams' = [searchParams EXCEPT ![c] = p]
        /\ url' = p
        /\ last' = Step("throw", c, u.arg, newValue(u.arg, state[c]), TRUE)
  /\ phase' = "failed"
  /\ UNCHANGED <<args, location, mounted, state, queue, memoKey,
                 effectPending, since>>

\* Lines 30-32 in a render pass, when toParam throws: the updater is left at
\* line 32, before the set or delete and before setSearchParams; nothing in
\* the hook catches the error, which ends the render pass.
UpdaterThrows ==
  /\ phase = "render"
  /\ \E c \in Cells : queue[c] # <<>>
  /\ Throws(NextCell)
  /\ LET c == NextCell
         u == Head(queue[c])
     IN last' = Step("throw", c, u.arg, newValue(u.arg, state[c]), FALSE)
  /\ phase' = "failed"
  /\ UNCHANGED <<args, url, location, mounted, state, queue, searchParams,
                 memoKey, effectPending, since>>

\* React unmounts the component whose render pass failed: the hook's state,
\* queue and effect are discarded, the updater is not run again.
Discard ==
  /\ phase = "failed"
  /\ LET c == last.cell
     IN /\ mounted' = [mounted EXCEPT ![c] = FALSE]
        /\ state' = [state EXCEPT ![c] = 0]
        /\ queue' = [queue EXCEPT ![c] = <<>>]
        /\ searchParams' = [searchParams EXCEPT ![c] = <<>>]
        /\ memoKey' = [memoKey EXCEPT ![c] = <<>>]
        /\ effectPending' = [effectPending EXCEPT ![c] = FALSE]
        /\ since' = [since EXCEPT ![c] = Fresh(0)]
        /\ last' = Step("discard", c, NoArg, 0, FALSE)
  /\ phase' = "idle"
  /\ UNCHANGED <<args, url, location>>

\* Line 25 in a render pass: useState applies the oldest queued update.  An
\* updater (lines 30-42) computes the next value from the state reached so
\* far, sets or deletes the parameter in the searchParams object its closure
\* captured, navigates to that object's content and returns the next value.
ApplyQueued ==
  /\ phase = "render"
  /\ \E c \in Cells : queue[c] # <<>>
  /\ ~Throws(NextCell)
  /\ LET c == NextCell
         u == Head(queue[c])
         v == newValue(u.arg, state[c])
     IN /\ queue' = [queue EXCEPT ![c] = Tail(queue[c])]
        /\ state' = [state EXCEPT ![c] = v]
        /\ IF u.kind = "updater"
             THEN LET p == newParams(args, searchParamName(c), searchParams[c], v)
                  IN /\ searchParams' = [searchParams EXCEPT ![c] = p]
                     /\ url' = p
                     /\ last' = Step("apply", c, u.arg, v, TRUE)
             ELSE /\ UNCHANGED <<searchParams, url>>
                  /\ last' = Step("take", c, u.arg, v, FALSE)
  /\ UNCHANGED <<args, location, phase, mounted, memoKey, effectPending, since>>

\* Mutant of memoParams: the object of the mounting render is kept for ever
\* (memoised with no dependency on location.search).
memoParamsKeep(key, p, loc) == p

\* Line 22 in a render pass: useSearchParams returns the memoised object
\* unless location.search differs from the one the object was made for; then
\* it returns a fresh object holding the rendered location's parameters.
memoParams(key, p, loc) == IF loc # key THEN loc ELSE p

\* The render pass commits: every mounted cell has rendered with the pass's
\* location, and its effect (lines 48-54) is scheduled.
Commit ==
  /\ phase = "render"
  /\ \A c \in Cells : queue[c] = <<>>
  /\ phase' = "idle"
  /\ searchParams' = [c \in Cells |->
       IF mounted[c] THEN memoParams(memoKey[c], searchParams[c], location)
       ELSE searchParams[c]]
  /\ memoKey' = [c \in Cells |-> IF mounted[c] THEN location ELSE memoKey[c]]
  /\ effectPending' = [c \in Cells |-> mounted[c]]
  /\ last' = Step("commit", 0, NoArg, 0, FALSE)
  /\ UNCHANGED <<args, url, location, mounted, state, queue, since>>

\* Line 51, _state !== newValue, where newValue is what fromParam has just
\* returned: numbers differ by value; an object made by this call of
\* fromParam is no object the state can hold, whatever its content.
NotSame(cf, s, v) == cf = "fresh" \/ s # v

\* Mutant of SyncEffect: the effect calls setState, the hook's own updating
\* function, where the code calls _setState.
SyncEffectViaSetState(c) ==
  /\ phase = "idle"
  /\ effectPending[c]
  /\ LET paramValue == Get(searchParams[c], searchParamName(c))
         v == fromParam(args, paramValue)
     IN /\ queue' = [queue EXCEPT ![c] =
                       IF NotSame(args, state[c], v) THEN Enqueue(queue[c], Updater(Lit(v)))
                       ELSE queue[c]]
        /\ last' = Step("effect", c, NoArg, v, FALSE)
  /\ effectPending' = [effectPending EXCEPT ![c] = FALSE]
  /\ UNCHANGED <<args, url, location, phase, mounted, state, searchParams,
                 memoKey, since>>

\* Lines 48-54: the effect decodes the parameter of the rendered searchParams
\* and, when it is not the rendered state, queues it as the new state.
SyncEffect(c) ==
  /\ phase = "idle"
  /\ effectPending[c]
  /\ LET paramValue == Get(searchParams[c], searchParamName(c))
         v == fromParam(args, paramValue)
     IN /\ queue' = [queue EXCEPT ![c] =
                       IF NotSame(args, state[c], v)
                         THEN Enqueue(queue[c], Value(v)) ELSE queue[c]]
        /\ last' = Step("effect", c, NoArg, v, FALSE)
  /\ effectPending' = [effectPending EXCEPT ![c] = FALSE]
  /\ UNCHANGED <<args, url, location, phase, mounted, state, searchParams,
                 memoKey, since>>

\* ------------------------------------------------------------ specifications

\* One cell, bound to "q", which is the URL's only parameter.
One == {1}

Next ==
  \/ (\E c \in One : Mount(c)) /\ UNCHANGED <<events, writes>>
  \/ (\E c \in One : Unmount(c)) /\ UNCHANGED <<events, writes>>
  \/ (\E c \in One, a \in Args : SetStateQueued(c, a)) /\ UNCHANGED <<events, writes>>
  \/ (\E c \in One, a \in Args : SetStateEager(c, a)) /\ UNCHANGED <<events, writes>>
  \/ (\E v \in ParamValues \cup {Null} : External("q", v)) /\ UNCHANGED <<events, writes>>
  \/ BeginRender /\ UNCHANGED <<events, writes>>
  \/ ApplyQueued /\ UNCHANGED <<events, writes>>
  \/ Commit /\ UNCHANGED <<events, writes>>
  \/ (\E c \in One : SyncEffect(c)) /\ UNCHANGED <<events, writes>>

Spec == Init /\ [][Next]_vars

\* React renders whenever an update or a navigation asks for it, and runs the
\* effects of every render pass: its steps are taken as long as they are
\* enabled.  FairSpec is a part of Spec (configuration "num", an empty URL at
\* the start, navigation of "q" only) that also counts the events.
FairInit == Start({"num"}, {<<>>})

\* One more call or external change.
Counted == events' = 1 - events /\ UNCHANGED writes

FairNext ==
  \/ (\E c \in One : Mount(c)) /\ Counted
  \/ (\E c \in One, a \in Args : SetStateQueued(c, a)) /\ Counted
  \/ (\E c \in One, a \in Args : SetStateEager(c, a)) /\ Counted
  \/ (\E v \in ParamValues \cup {Null} : External("q", v)) /\ Counted
  \/ BeginRender /\ UNCHANGED <<events, writes>>
  \/ ApplyQueued /\ UNCHANGED <<events, writes>>
  \/ Commit /\ UNCHANGED <<events, writes>>
  \/ (\E c \in One : SyncEffect(c)) /\ UNCHANGED <<events, writes>>

FairSpec ==
  /\ FairInit
  /\ [][FairNext]_vars
  /\ WF_vars(BeginRender /\ UNCHANGED <<events, writes>>)
  /\ WF_vars(ApplyQueued /\ UNCHANGED <<events, writes>>)
  /\ WF_vars(Commit /\ UNCHANGED <<events, writes>>)
  /\ \A c \in One : WF_vars(SyncEffect(c) /\ UNCHANGED <<events, writes>>)

\* The same for a cell whose state is an object (configuration "fresh").
FreshInit == Start({"fresh"}, {<<>>})

FreshSpec ==
  /\ FreshInit
  /\ [][FairNext]_vars
  /\ WF_vars(BeginRender /\ UNCHANGED <<events, writes>>)
  /\ WF_vars(ApplyQueued /\ UNCHANGED <<events, writes>>)
  /\ WF_vars(Commit /\ UNCHANGED <<events, writes>>)
  /\ \A c \in One : WF_vars(SyncEffect(c) /\ UNCHANGED <<events, writes>>)

\* One cell, bound to "q", in a URL that has another parameter, "k", which
\* somebody else sets and removes (configuration "num").
OtherInit == Start({"num"}, OtherStores)

OtherNext ==
  \/ (\E c \in One : Mount(c)) /\ UNCHANGED <<events, writes>>
  \/ (\E c \in One : Unmount(c)) /\ UNCHANGED <<events, writes>>
  \/ (\E c \in One, a \in Args : SetStateQueued(c, a)) /\ UNCHANGED <<events, writes>>
  \/ (\E c \in One, a \in Args : SetStateEager(c, a)) /\ UNCHANGED <<events, writes>>
  \/ (\E v \in {"1", Null} : External("k", v)) /\ UNCHANGED <<events, writes>>
  \/ BeginRender /\ UNCHANGED <<events, writes>>
  \/ ApplyQueued /\ UNCHANGED <<events, writes>>
  \/ Commit /\ UNCHANGED <<events, writes>>
  \/ (\E c \in One : SyncEffect(c)) /\ UNCHANGED <<events, writes>>

SpecOther == OtherInit /\ [][OtherNext]_vars

\* One cell, bound to "q", in a page that is reloaded now and then; the URL
\* starts without parameters, and what else navigates sets q=1 or removes q.
ReloadInit == Start(Configs \cup {"empty"}, {<<>>})

ReloadNext ==
  \/ (\E c \in One : Mount(c)) /\ UNCHANGED <<events, writes>>
  \/ (\E c \in One : Reload(c)) /\ UNCHANGED <<events, writes>>
  \/ (\E c \in One, a \in Args : SetStateQueued(c, a)) /\ UNCHANGED <<events, writes>>
  \/ (\E c \in One, a \in Args : SetStateEager(c, a)) /\ UNCHANGED <<events, writes>>
  \/ (\E v \in {"1", Null} : External("q", v)) /\ UNCHANGED <<events, writes>>
  \/ BeginRender /\ UNCHANGED <<events, writes>>
  \/ ApplyQueued /\ UNCHANGED <<events, writes>>
  \/ Commit /\ UNCHANGED <<events, writes>>
  \/ (\E c \in One : SyncEffect(c)) /\ UNCHANGED <<events, writes>>

SpecReload == ReloadInit /\ [][ReloadNext]_vars

\* One cell, bound to "q", that nothing but its own setState navigates; the
\* URL starts without parameters.
PlainInit == Start(Configs \cup {"skip"}, {<<>>})

PlainNext ==
  \/ (\E c \in One : Mount(c)) /\ UNCHANGED <<events, writes>>
  \/ (\E c \in One, a \in Args : SetStateQueued(c, a)) /\ UNCHANGED <<events, writes>>
  \/ (\E c \in One, a \in Args : SetStateEager(c, a)) /\ UNCHANGED <<events, writes>>
  \/ BeginRender /\ UNCHANGED <<events, writes>>
  \/ ApplyQueued /\ UNCHANGED <<events, writes>>
  \/ Commit /\ UNCHANGED <<events, writes>>
  \/ (\E c \in One : SyncEffect(c)) /\ UNCHANGED <<events, writes>>

SpecPlain == PlainInit /\ [][PlainNext]_vars

\* One cell, bound to "q", whose toParam throws for some values; the URL
\* starts without parameters, and what else navigates sets q=2 or removes q.
ThrowInit == Start({"throws"}, {<<>>})

ThrowNext ==
  \/ (\E c \in One : Mount(c)) /\ UNCHANGED <<events, writes>>
  \/ (\E c \in One, a \in Args : SetStateQueued(c, a)) /\ UNCHANGED <<events, writes>>
  \/ (\E c \in One, a \in Args : SetStateEager(c, a)) /\ UNCHANGED <<events, writes>>
  \/ (\E v \in {"2", Null} : External("q", v)) /\ UNCHANGED <<events, writes>>
  \/ BeginRender /\ UNCHANGED <<events, writes>>
  \/ ApplyQueued /\ UNCHANGED <<events, writes>>
  \/ UpdaterThrows /\ UNCHANGED <<events, writes>>
  \/ Discard /\ UNCHANGED <<events, writes>>
  \/ Commit /\ UNCHANGED <<events, writes>>
  \/ (\E c \in One : SyncEffect(c)) /\ UNCHANGED <<events, writes>>

SpecThrow == ThrowInit /\ [][ThrowNext]_vars

\* Two cells, bound to "q" and to "k", mounted in one page whose URL starts
\* as ?q=2&k=2 (configuration "num"); nothing else navigates.
TwoStores == {<<Entry("q", "2"), Entry("k", "2")>>}

TwoInit == Start({"num"}, TwoStores)

\* A quiet point: every cell has settled.
Quiet ==
  /\ phase = "idle"
  /\ location = url
  /\ \A c \in Cells : queue[c] = <<>> /\ ~effectPending[c]

\* An entry of `writes`: the updater of cell c replaced the URL, whose
\* parameter of c held `old` just before, to record the value v; or (cell 0) a
\* render pass committed.
Write(c, old, v) == [cell |-> c, old |-> old, val |-> v]
Committed == Write(0, Null, 0)

\* The number of updaters waiting in the queues, and of entries of `writes`
\* that are replacements of the URL.
Waiting ==
  Cardinality({<<c, i>> \in Cells \X (1..MaxCalls) :
                 i <= Len(queue[c]) /\ queue[c][i].kind = "updater"})
Replaced == Cardinality({i \in DOMAIN writes : writes[i].cell # 0})

\* The calls come from event handlers: React has flushed the effects before,
\* and as many updaters as there are cells are applied between two quiet
\* points.
Room ==
  /\ \A c \in Cells : ~effectPending[c]
  /\ Quiet \/ Waiting + Replaced < Cardinality(Cells)

\* `writes` after a step of a call or of the render pass: it starts again at
\* a quiet point, and takes the replacement of the URL the step has made.
Logged ==
  LET base == IF Quiet THEN <<>> ELSE writes
      c == last'.cell
  IN writes' = IF last'.wrote
                 THEN Append(base, Write(c, Get(url, searchParamName(c)), last'.val))
                 ELSE base

\* `writes` after a commit: the commit is marked once after the replacements
\* it follows.
Marked ==
  writes' = IF writes # <<>> /\ writes[Len(writes)] # Committed
              THEN Append(writes, Committed) ELSE writes

TwoNext ==
  \/ (\E c \in Cells : Mount(c)) /\ UNCHANGED <<events, writes>>
  \/ (\E c \in Cells, a \in Args : Room /\ SetStateQueued(c, a) /\ Logged)
       /\ UNCHANGED events
  \/ (\E c \in Cells, a \in Args : Room /\ SetStateEager(c, a) /\ Logged)
       /\ UNCHANGED events
  \/ BeginRender /\ UNCHANGED <<events, writes>>
  \/ ApplyQueued /\ Logged /\ UNCHANGED events
  \/ Commit /\ Marked /\ UNCHANGED events
  \/ (\E c \in Cells : SyncEffect(c)) /\ UNCHANGED <<events, writes>>

SpecTwo == TwoInit /\ [][TwoNext]_vars

\* ------------------------------------------------------------------ claims

\* The cell's parameter as the URL holds it, decoded.
Decoded(c) == fromParam(args, Get(url, searchParamName(c)))

\* C1: at every settling point, if toParam(state) is present then the URL's
\* parameter decodes to the state.
C1_SettledUrlDecodesToState ==
  \A c \in One :
    Settled(c) /\ toParam(args, state[c]) # Undefined => Decoded(c) = state[c]

\* The last step applied an updater of cell c (lines 30-42 ran): inside the
\* call of setState, or in a render pass.
Applied(c) == last.cell = c /\ last.op \in {"apply", "callEager"}

\* The last step was a call of setState(v) of cell c with a literal v.
Called(c, v) ==
  last.cell = c /\ last.op \in {"call", "callEager"} /\ last.arg = Lit(v)

\* What the specification has the store hold for value v: the encoding, or
\* no entry (null) when the encoding is the absent marker.
Encoded(v) == IF toParam(args, v) = Undefined THEN Null ELSE toParam(args, v)

\* C2 as stated: right after setState(v) returns, the URL holds the encoding
\* of v under the parameter name and the state read is v.
C2_UpdateCompleteOnReturn ==
  \A c \in One : \A v \in T :
    Called(c, v) =>
      Get(url, searchParamName(c)) = Encoded(v) /\ state[c] = v

\* What lines 34-38 leave in the store for value v: the encoding when it is a
\* non-empty string, no entry (null) otherwise.
Kept(v) == IF Truthy(toParam(args, v)) THEN toParam(args, v) ELSE Null

\* C2 as amended: a call of setState that React queues changes neither the
\* URL nor the state; a call React evaluates at once replaces the URL while
\* the state read stays what it was, the next value waiting in the queue; an
\* updater applied by a render pass replaces the URL and yields the state in
\* the same step.  The next value of setState(v) is v.
C2_AppliedInOneStep ==
  [][\A c \in One :
       LET n == searchParamName(c)
       IN /\ last'.cell = c /\ last'.op = "call" =>
               url' = url /\ state' = state
          /\ last'.cell = c /\ last'.op = "callEager" =>
               /\ Get(url', n) = Kept(last'.val)
               /\ state' = state
               /\ queue'[c] = <<Value(last'.val)>>
          /\ last'.cell = c /\ last'.op = "apply" =>
               /\ Get(url', n) = Kept(last'.val)
               /\ state'[c] = last'.val
          /\ last'.cell = c /\ last'.op \in {"apply", "callEager"}
               /\ last'.arg.form = "lit" => last'.val = last'.arg.val
    ]_vars

\* setState(1) has returned, evaluated inside the call: the URL holds q=1,
\* the state read is still 0.
C2_Witness ==
  /\ Called(1, 1)
  /\ last.op = "callEager"
  /\ Get(url, "q") = "1"
  /\ state[1] = 0

\* C3: when an updater is applied whose next value encodes to the absent
\* marker, the URL has no entry for the parameter name afterwards.
C3_AbsentRemovesParameter ==
  \A c \in One :
    Applied(c) /\ toParam(args, last.val) = Undefined =>
      Count(url, searchParamName(c)) = 0

C3_Witness ==
  /\ Applied(1)
  /\ toParam(args, last.val) = Undefined
  /\ Has(location, "q")
  /\ ~Has(url, "q")

\* C4 as stated: when an updater is applied whose next value encodes to a
\* string (the empty string included), the URL has exactly one entry for the
\* parameter name afterwards, holding that string.
C4_StringIsWritten ==
  \A c \in One :
    Applied(c) /\ toParam(args, last.val) # Undefined =>
      /\ Count(url, searchParamName(c)) = 1
      /\ Get(url, searchParamName(c)) = toParam(args, last.val)

\* C5 as stated: once the URL has been changed from outside so that the
\* parameter decodes to a value d other than the state, the state becomes d,
\* unless another call or external change follows first.
C5_ExternalChangeReachesState ==
  \A c \in One : \A d \in T : \A e \in {0, 1} :
    (mounted[c] /\ last.op = "external" /\ events = e
       /\ Decoded(c) = d /\ state[c] # d)
      ~> (state[c] = d \/ events # e)

\* C6: the effect never touches the store, and queues nothing but the decoded
\* value itself (no updater, which would write); whenever the component calls
\* setSearchParams, or the URL changes without an external navigation, the
\* step is the application of one updater (so the writes never outnumber the
\* updater applications).
C6_OnlyUpdatersWrite ==
  [][/\ last'.op = "effect" =>
          /\ url' = url /\ searchParams' = searchParams /\ ~last'.wrote
          /\ \A c \in One :
                \/ queue'[c] = queue[c]
                \/ queue'[c] = Append(queue[c], Value(last'.val))
     /\ (last'.wrote \/ url' # url) /\ last'.op # "external" =>
          last'.op \in {"apply", "callEager"}
    ]_vars

\* The effect has just replaced the state after an external change of "q".
C6_Witness ==
  /\ last.op = "effect"
  /\ since[1].external
  /\ queue[1] = <<Value(2)>>
  /\ state[1] = 1
  /\ Get(url, "q") = "2"

\* C7 as stated: two calls of setState after a settling point, with no
\* external change, settle at the second applied to the result of the first
\* applied to the settled state, the URL holding the encoding of that value.
C7_CallOrder ==
  \A c \in One :
    Settled(c) /\ ~since[c].external /\ since[c].calls = 2 =>
      /\ state[c] = since[c].plain
      /\ Get(url, searchParamName(c)) = Encoded(since[c].plain)

\* The part of C7 about the order alone.
C7_OrderOnly ==
  \A c \in One :
    Settled(c) /\ ~since[c].external /\ since[c].calls = 2 =>
      /\ state[c] = since[c].plain
      /\ Get(url, searchParamName(c)) = Kept(since[c].plain)

\* C8: the mounting render seeds the state with the decoded parameter of the
\* URL (0 when the parameter is missing or empty); afterwards the state
\* changes only by taking the oldest queued update, never by seeding again.
C8_SeededOnceOnMount ==
  [][\A c \in One :
       LET n == searchParamName(c)
       IN /\ last'.op = "mount" /\ last'.cell = c =>
               /\ \A v \in T : Get(url', n) = String(v) => state'[c] = v
               /\ Get(url', n) \in {Null, ""} => state'[c] = 0
          /\ mounted[c] /\ mounted'[c] /\ state'[c] # state[c] =>
               /\ queue[c] # <<>>
               /\ queue'[c] = Tail(queue[c])
               /\ state'[c] = newValue(Head(queue[c]).arg, state[c])
    ]_vars

\* A render pass has rendered a location whose parameter decodes to 1, and
\* the state seeded with 2 at the mount is still the state.
C8_Witness ==
  /\ last.op = "commit"
  /\ since[1].calls = 0
  /\ state[1] = 2
  /\ Get(location, "q") = "1"

\* C9 as stated: at every settling point, if toParam(state) is the absent
\* marker then the URL has no entry for the parameter name.
C9_SettledAbsentIsRemoved ==
  \A c \in One :
    Settled(c) /\ toParam(args, state[c]) = Undefined =>
      ~Has(url, searchParamName(c))

\* C9 as amended: the same at the settling points reached by calls of
\* setState alone, with no external change since the settling point before.
C9_SettledAfterCallsAbsentIsRemoved ==
  \A c \in One :
    Settled(c) /\ since[c].calls > 0 /\ ~since[c].external
      /\ toParam(args, state[c]) = Undefined =>
        ~Has(url, searchParamName(c))

\* The cell has settled at 0, which toParam gives no string for, after two
\* calls of setState and no external change.
C9_Witness ==
  /\ Settled(1)
  /\ since[1].calls = 2
  /\ ~since[1].external
  /\ state[1] = 0
  /\ toParam(args, state[1]) = Undefined
  /\ ~Has(url, "q")

\* C10 as stated: applying an updater of the cell bound to p leaves every
\* other parameter of the URL as it was just before.
C10_OtherKeysUntouched ==
  [][\A c \in One :
       last'.cell = c /\ last'.op \in {"apply", "callEager"} =>
         \A k \in Names \ {searchParamName(c)} : Get(url', k) = Get(url, k)
    ]_vars

\* C10 as amended: applying an updater of the cell bound to p gives every
\* other parameter of the URL the value it has in the searchParams object the
\* update function captured.
C10_OtherKeysFromSnapshot ==
  [][\A c \in One :
       last'.cell = c /\ last'.op \in {"apply", "callEager"} =>
         \A k \in Names \ {searchParamName(c)} :
           Get(url', k) = Get(searchParams[c], k)
    ]_vars

\* An updater was applied while the URL held another parameter "k", changed
\* since the render pass: "k" is gone from the URL.
C10_Witness ==
  /\ Applied(1)
  /\ Has(url, "q")
  /\ ~Has(url, "k")
  /\ ~Has(location, "k")
  /\ since[1].external

\* C11: when the updaters of two cells have replaced the URL one after the
\* other with no commit between them (each from the searchParams object of
\* its last render), the second changing its parameter, and the cells have
\* settled with no further update, then the last writer has won: the URL is
\* the second writer's searchParams object, holding its new parameter; the
\* first writer's parameter is back at the value it had before its update,
\* and the first cell's state is the decoding of that old value.
C11_LastWriterWins ==
  (/\ Quiet
   /\ Len(writes) = 3
   /\ writes[1].cell # 0 /\ writes[2].cell # 0 /\ writes[3] = Committed
   /\ writes[1].cell # writes[2].cell
   /\ Get(url, searchParamName(writes[2].cell)) # writes[2].old)
  => LET first == writes[1].cell
         second == writes[2].cell
     IN /\ url = searchParams[second]
        /\ Get(url, searchParamName(second)) = Kept(writes[2].val)
        /\ state[second] = writes[2].val
        /\ Get(url, searchParamName(first)) = writes[1].old
        /\ state[first] = fromParam(args, writes[1].old)

\* Both cells called setState(1) from ?q=2&k=2: the URL is ?q=2&k=1, the
\* first cell's update to 1 is lost and its state is 2 again.
C11_Witness ==
  /\ Quiet
  /\ writes = <<Write(1, "2", 1), Write(2, "2", 1), Committed>>
  /\ url = <<Entry("q", "2"), Entry("k", "1")>>
  /\ state[1] = 2
  /\ state[2] = 1

\* C12 as stated: when the cell has settled after calls of setState, with no
\* external change, and toParam gives a string for the value v the calls ask
\* for (fromParam(toParam(v)) = v in every configuration here), a reload of
\* the page mounts a fresh cell whose initial state is v.
C12_StateSurvivesReload ==
  [][\A c \in One :
       LET v == since[c].plain
       IN (/\ last'.op = "reload" /\ last'.cell = c
           /\ Settled(c) /\ since[c].calls > 0 /\ ~since[c].external
           /\ toParam(args, v) # Undefined)
          => state'[c] = v
    ]_vars

\* C13 as stated: with no external change, the state at every settling point
\* is the state of a plain useState cell that started from the same initial
\* state and received the same calls (fromParam(toParam(v)) = v wherever
\* toParam(v) is a string, in every configuration here).
C13_SubstitutesPlainCell ==
  \A c \in One :
    Settled(c) /\ ~since[c].external => state[c] = since[c].plain

\* C14 as stated: after a call of setState or an external change, the cell
\* reaches a settling point unless another call or external change follows
\* first: the effect does not keep replacing the state for ever.
C14_ReconciliationTerminates ==
  \A c \in One : \A e \in {0, 1} :
    (mounted[c] /\ events = e) ~> (Settled(c) \/ events # e)

\* C15 as stated: after one call of setState made at a settling point, for a
\* value v with fromParam(toParam(v)) = v (fromParam(null) where toParam(v)
\* is the absent marker), and with no external change, the state changes to
\* v and to nothing else until the next call: the effect never sets it back.
C15_NoTransientRevert ==
  [][\A c \in One :
       LET v == since'[c].plain
       IN (/\ mounted[c] /\ mounted'[c]
           /\ since'[c].calls = 1 /\ ~since'[c].external
           /\ fromParam(args, Encoded(v)) = v)
          => state'[c] \in {state[c], v}
    ]_vars

\* C16: when toParam throws for the next value an updater has computed,
\* nothing catches it (the render pass fails), no set, delete or
\* setSearchParams is issued, the URL and the searchParams object are
\* unchanged and the state keeps its value; the updater is not run again: the
\* next step is React discarding the failed component, which leaves the URL
\* alone too.  A call of setState never fails by itself.
C16_ThrowChangesNothing ==
  [][/\ (phase = "render" /\ (\E c \in Cells : queue[c] # <<>>)
           /\ Throws(NextCell)) =>
          /\ last'.op = "throw" /\ phase' = "failed"
          /\ ~last'.wrote
          /\ url' = url /\ searchParams' = searchParams
          /\ state' = state
     /\ last.op = "throw" =>
          /\ last'.op = "discard" /\ last'.cell = last.cell
          /\ url' = url
          /\ ~mounted'[last.cell] /\ queue'[last.cell] = <<>>
     /\ last'.op \in {"call", "callEager"} => phase' = "idle"
    ]_vars

\* The updater prev => prev + 1 was applied to state 1 on ?q=1: toParam(2)
\* threw, the URL is still ?q=1 and the state 1.
C16_Witness ==
  /\ last.op = "throw"
  /\ last.arg = IncFn
  /\ last.val = 2
  /\ url = <<Entry("q", "1")>>
  /\ state[1] = 1

====
